---- MODULE Spec2Model ----
(***************************************************************************)
(* RISC-V relocation processing of the kmod loader                         *)
(* (kmod-loader/src/arch/riscv64.rs, kmod-loader/src/arch/mod.rs).         *)
(*                                                                         *)
(* Machine integers are modelled bit-exactly: a value of an n-bit integer  *)
(* type is the set of the positions (0 = least significant) of its 1 bits. *)
(* u64/i64 values are subsets of 0..63, u32/i32 of 0..31, u16 of 0..15 and *)
(* a byte of memory is a subset of 0..7.  Signed and unsigned values share *)
(* the representation (two's complement), as they do in the machine.       *)
(*                                                                         *)
(* What depends on the build is a choice of the initial state: a "debug"   *)
(* build has debug_assert! and panics on arithmetic overflow, a "release"  *)
(* build has neither and wraps.  A panic (unimplemented!, a Vec index out  *)
(* of bounds, a failed debug_assert!, an overflow) is the result "panic",  *)
(* apart from Ok and Err(RelocationFailed).                                *)
(*                                                                         *)
(* Inputs of the model: patch locations lie inside module memory, 8-byte   *)
(* aligned, in a section whose sh_addr is 4 KiB aligned; sh_info and the   *)
(* slice of the section data are valid; load_info.symbol_names is as long  *)
(* as load_info.syms; locations and symbol addresses are less than 2^63    *)
(* apart, so `address as i64 - location as i64` itself never overflows.    *)
(***************************************************************************)
EXTENDS Integers, Sequences, FiniteSets, TLC

VARIABLES
    build,       \* "debug" or "release": debug_assert! and overflow checks on or off
    sechdrs,     \* [sh_addr, sh_entsize] of the section patched / the relocation section
    syms,        \* load_info.syms: sequence of st_value
    rela_list,   \* the Elf64_Rela entries of the relocation section, in section order
    mem,         \* module memory: address -> byte
    mem0,        \* module memory before the call (never changed)
    pc,          \* position of the running function
    idx,         \* apply_relocate_add: index of the entry the loop is at
    applied,     \* apply_relocate_add: indices of the entries applied, in order
    call,        \* arguments of the last apply_relocation call
    res          \* result of the function: "none" while running

vars == <<build, sechdrs, syms, rela_list, mem, mem0, pc, idx, applied, call, res>>

----------------------------------------------------------------------------
(* Fixed-width integers as bit sets *)

\* bit i of a as 0 or 1
Bit(a, i) == IF i \in a THEN 1 ELSE 0

RECURSIVE BVFrom(_, _)
BVFrom(n, i) ==
    IF n = 0 THEN {}
    ELSE (IF n % 2 = 1 THEN {i} ELSE {}) \cup BVFrom(n \div 2, i + 1)

\* the bit set of a literal below 2^31
BV(n) == BVFrom(n, 0)

\* the bit set of a 32-bit literal given as its two 16-bit halves
BV32(hi16, lo16) == BV(lo16) \cup BVFrom(hi16, 16)

\* the bit set of a 64-bit literal given as its four 16-bit quarters
BV64(q3, q2, q1, q0) == BV32(q1, q0) \cup BVFrom(q2, 32) \cup BVFrom(q3, 48)

RECURSIVE ToNat(_)
\* the number of a bit set below 2^31
ToNat(a) ==
    IF a = {} THEN 0
    ELSE LET i == CHOOSE x \in a : TRUE
         IN  2^i + ToNat(a \ {i})

\* `x as u32`, `x as i32`, `x as u16` (truncation); `as u64` / `as i64` between
\* 64-bit types keeps the bits
AsU32(a) == a \cap (0..31)
AsU16(a) == a \cap (0..15)

\* `u32 as u64`: zero extension; `i32 as i64`: sign extension
SignExtend(a, from, to) == IF (from - 1) \in a THEN a \cup (from..(to - 1)) ELSE a

\* a & b, a | b
BitAnd(a, b) == a \cap b
BitOr(a, b) == a \cup b

\* a << k on a w-bit type (bits shifted out are lost)
Shl(a, k, w) == {i + k : i \in {j \in a : j + k < w}}

\* a >> k on the unsigned types
Lsr(a, k) == {i - k : i \in {j \in a : j >= k}}

\* a >> k; on the signed types the shift is arithmetic
Shr(a, k, w) ==
    {i - k : i \in {j \in a : j >= k}}
        \cup (IF (w - 1) \in a THEN (w - k)..(w - 1) ELSE {})

RECURSIVE AddBits(_, _, _, _, _)
\* ripple-carry sum of bits i..w-1 of a and b with carry c
AddBits(a, b, c, i, w) ==
    IF i = w THEN {}
    ELSE LET s == Bit(a, i) + Bit(b, i) + c
         IN  (IF s % 2 = 1 THEN {i} ELSE {}) \cup AddBits(a, b, s \div 2, i + 1, w)

\* a + b and a - b modulo 2^w (the result a release build computes)
WrappingAdd(a, b, w) == AddBits(a, b, 0, 0, w)
WrappingSub(a, b, w) == AddBits(a, (0..(w - 1)) \ b, 1, 0, w)

\* unsigned and signed order of w-bit values
Max(S) == CHOOSE x \in S : \A y \in S : y <= x
ULt(a, b) ==
    LET d == (a \ b) \cup (b \ a)
    IN  d # {} /\ Max(d) \in b
SLt(a, b, w) ==
    LET s == {w - 1}
    IN  ULt((a \ s) \cup (s \ a), (b \ s) \cup (s \ b))
SLe(a, b, w) == a = b \/ SLt(a, b, w)

\* whether a + b / a - b leaves the range of the signed / unsigned w-bit type
SAddOverflows(a, b, w) ==
    /\ ((w - 1) \in a) = ((w - 1) \in b)
    /\ ((w - 1) \in WrappingAdd(a, b, w)) # ((w - 1) \in a)
SSubOverflows(a, b, w) ==
    /\ ((w - 1) \in a) # ((w - 1) \in b)
    /\ ((w - 1) \in WrappingSub(a, b, w)) # ((w - 1) \in a)
UAddOverflows(a, b, w) == w \in AddBits(a, b, 0, 0, w + 1)
USubOverflows(a, b, w) == ULt(a, b)

\* overflow-checks: on in a debug build (panic), off in a release build (wrap)
OverflowChecks == build = "debug"
\* debug-assertions: debug_assert! is compiled in a debug build only
DebugAssertions == build = "debug"

----------------------------------------------------------------------------
(* enum Riscv64RelocationType: the discriminants *)

R_RISCV_NONE == 0
R_RISCV_32 == 1
R_RISCV_64 == 2
R_RISCV_RELATIVE == 3
R_RISCV_COPY == 4
R_RISCV_JUMP_SLOT == 5
R_RISCV_TLS_DTPMOD32 == 6
R_RISCV_TLS_DTPMOD64 == 7
R_RISCV_TLS_DTPREL32 == 8
R_RISCV_TLS_DTPREL64 == 9
R_RISCV_TLS_TPREL32 == 10
R_RISCV_TLS_TPREL64 == 11
R_RISCV_BRANCH == 16
R_RISCV_JAL == 17
R_RISCV_CALL == 18
R_RISCV_CALL_PLT == 19
R_RISCV_GOT_HI20 == 20
R_RISCV_TLS_GOT_HI20 == 21
R_RISCV_TLS_GD_HI20 == 22
R_RISCV_PCREL_HI20 == 23
R_RISCV_PCREL_LO12_I == 24
R_RISCV_PCREL_LO12_S == 25
R_RISCV_HI20 == 26
R_RISCV_LO12_I == 27
R_RISCV_LO12_S == 28
R_RISCV_TPREL_HI20 == 29
R_RISCV_TPREL_LO12_I == 30
R_RISCV_TPREL_LO12_S == 31
R_RISCV_TPREL_ADD == 32
R_RISCV_ADD8 == 33
R_RISCV_ADD16 == 34
R_RISCV_ADD32 == 35
R_RISCV_ADD64 == 36
R_RISCV_SUB8 == 37
R_RISCV_SUB16 == 38
R_RISCV_SUB32 == 39
R_RISCV_SUB64 == 40
R_RISCV_GNU_VTINHERIT == 41
R_RISCV_GNU_VTENTRY == 42
R_RISCV_ALIGN == 43
R_RISCV_RVC_BRANCH == 44
R_RISCV_RVC_JUMP == 45
R_RISCV_RVC_LUI == 46
R_RISCV_GPREL_I == 47
R_RISCV_GPREL_S == 48
R_RISCV_TPREL_I == 49
R_RISCV_TPREL_S == 50
R_RISCV_RELAX == 51
R_RISCV_SUB6 == 52
R_RISCV_SET6 == 53
R_RISCV_SET8 == 54
R_RISCV_SET16 == 55
R_RISCV_SET32 == 56

\* the discriminants of the enum: the values u32 -> Riscv64RelocationType accepts
Riscv64RelocationType == {
    R_RISCV_NONE, R_RISCV_32, R_RISCV_64, R_RISCV_RELATIVE,
    R_RISCV_COPY, R_RISCV_JUMP_SLOT, R_RISCV_TLS_DTPMOD32, R_RISCV_TLS_DTPMOD64,
    R_RISCV_TLS_DTPREL32, R_RISCV_TLS_DTPREL64, R_RISCV_TLS_TPREL32, R_RISCV_TLS_TPREL64,
    R_RISCV_BRANCH, R_RISCV_JAL, R_RISCV_CALL, R_RISCV_CALL_PLT,
    R_RISCV_GOT_HI20, R_RISCV_TLS_GOT_HI20, R_RISCV_TLS_GD_HI20, R_RISCV_PCREL_HI20,
    R_RISCV_PCREL_LO12_I, R_RISCV_PCREL_LO12_S, R_RISCV_HI20, R_RISCV_LO12_I,
    R_RISCV_LO12_S, R_RISCV_TPREL_HI20, R_RISCV_TPREL_LO12_I, R_RISCV_TPREL_LO12_S,
    R_RISCV_TPREL_ADD, R_RISCV_ADD8, R_RISCV_ADD16, R_RISCV_ADD32,
    R_RISCV_ADD64, R_RISCV_SUB8, R_RISCV_SUB16, R_RISCV_SUB32,
    R_RISCV_SUB64, R_RISCV_GNU_VTINHERIT, R_RISCV_GNU_VTENTRY, R_RISCV_ALIGN,
    R_RISCV_RVC_BRANCH, R_RISCV_RVC_JUMP, R_RISCV_RVC_LUI, R_RISCV_GPREL_I,
    R_RISCV_GPREL_S, R_RISCV_TPREL_I, R_RISCV_TPREL_S, R_RISCV_RELAX,
    R_RISCV_SUB6, R_RISCV_SET6, R_RISCV_SET8, R_RISCV_SET16,
    R_RISCV_SET32}

----------------------------------------------------------------------------
(* struct Ptr: raw little-endian reads and writes of module memory *)

\* Ptr::add
PtrAdd(p, offset) == WrappingAdd(p, BV(offset), 64)

\* Module memory is the bytes from the patched section's sh_addr on, kept by
\* their distance from it.  The byte a pointer names: sh_addr is 4 KiB aligned
\* in every state of the model, so the distance is the pointer's low 12 bits
MemIndex(p) == IF sechdrs.sh_addr \subseteq p THEN ToNat(p \ sechdrs.sh_addr) ELSE -1

\* byte k of a little-endian value
ByteOf(value, k) == {b - 8 * k : b \in {c \in value : c \in (8 * k)..(8 * k + 7)}}

ReadAt(m, o, n) == UNION {{b + 8 * k : b \in m[o + k]} : k \in 0..(n - 1)}
WriteAt(m, o, n, value) ==
    [i \in DOMAIN m |-> IF i \in o..(o + n - 1) THEN ByteOf(value, i - o) ELSE m[i]]

\* Ptr::read::<T> with T of n bytes
PtrRead(m, p, n) == ReadAt(m, MemIndex(p), n)

\* Ptr::write::<T> with T of n bytes
PtrWrite(m, p, n, value) == WriteAt(m, MemIndex(p), n, value)

\* Result<()>: Ok(()), Err(ModuleErr::RelocationFailed(..)), or a panic
\* (unimplemented!, a failed debug_assert!, an index out of bounds, an
\* arithmetic overflow with overflow checks on), each with the memory it leaves
Ok(m) == [res |-> "Ok", mem |-> m]
RelocationFailed(m) == [res |-> "RelocationFailed", mem |-> m]
Panicked(m) == [res |-> "panic", mem |-> m]

----------------------------------------------------------------------------
(* impl Riscv64RelocationType *)

\* let low = (-(1i64 << 31)) - (1i64 << 11); let high = (1i64 << 31) - (1i64 << 11);
low == WrappingSub(WrappingSub({}, Shl(BV(1), 31, 64), 64), Shl(BV(1), 11, 64), 64)
high == WrappingSub(Shl(BV(1), 31, 64), Shl(BV(1), 11, 64), 64)

\* a closed interval: low <= offset && offset <= high; C9 tells it apart
riscv_insn_valid_32bit_offset_closed(offset) ==
    SLe(low, offset, 64) /\ SLe(offset, high, 64)

\* low <= offset && offset < high
riscv_insn_valid_32bit_offset(offset) ==
    SLe(low, offset, 64) /\ SLt(offset, high, 64)

apply_r_riscv_32_rela(m, location, address) ==
    IF address # AsU32(address)
    THEN RelocationFailed(m)
    ELSE Ok(PtrWrite(m, location, 4, AsU32(address)))

apply_r_riscv_64_rela(m, location, address) ==
    Ok(PtrWrite(m, location, 8, address))

\* imm11 moved to bit 11 - 4 instead of bit 7; C8 tells it apart
apply_r_riscv_branch_rela_imm11(m, location, address) ==
    LET offset == WrappingSub(address, location, 64)
        imm12 == AsU32(Shl(BitAnd(offset, BV(\h1000)), 31 - 12, 64))
        imm11 == AsU32(Shr(BitAnd(offset, BV(\h800)), 11 - 4, 64))
        imm10_5 == AsU32(Shl(BitAnd(offset, BV(\h7e0)), 30 - 10, 64))
        imm4_1 == AsU32(Shl(BitAnd(offset, BV(\h1e)), 11 - 4, 64))
        original_inst == PtrRead(m, location, 4)
    IN  IF OverflowChecks /\ SSubOverflows(address, location, 64)
        THEN Panicked(m)
        ELSE Ok(PtrWrite(m, location, 4,
                BitAnd(original_inst, BV(\h1fff07f))
                    \cup imm12 \cup imm11 \cup imm10_5 \cup imm4_1))

apply_r_riscv_branch_rela(m, location, address) ==
    LET offset == WrappingSub(address, location, 64)
        imm12 == AsU32(Shl(BitAnd(offset, BV(\h1000)), 31 - 12, 64))
        imm11 == AsU32(Shr(BitAnd(offset, BV(\h800)), 11 - 7, 64))
        imm10_5 == AsU32(Shl(BitAnd(offset, BV(\h7e0)), 30 - 10, 64))
        imm4_1 == AsU32(Shl(BitAnd(offset, BV(\h1e)), 11 - 4, 64))
        original_inst == PtrRead(m, location, 4)
    IN  IF OverflowChecks /\ SSubOverflows(address, location, 64)
        THEN Panicked(m)
        ELSE Ok(PtrWrite(m, location, 4,
                BitAnd(original_inst, BV(\h1fff07f))
                    \cup imm12 \cup imm11 \cup imm10_5 \cup imm4_1))

apply_r_riscv_jal_rela(m, location, address) ==
    LET offset == WrappingSub(address, location, 64)
        imm20 == AsU32(Shl(BitAnd(offset, BV(\h100000)), 31 - 20, 64))
        imm19_12 == AsU32(BitAnd(offset, BV(\hff000)))
        imm11 == AsU32(Shl(BitAnd(offset, BV(\h800)), 20 - 11, 64))
        imm10_1 == AsU32(Shl(BitAnd(offset, BV(\h7fe)), 30 - 10, 64))
        original_inst == PtrRead(m, location, 4)
    IN  IF OverflowChecks /\ SSubOverflows(address, location, 64)
        THEN Panicked(m)
        ELSE Ok(PtrWrite(m, location, 4,
                BitAnd(original_inst, BV(\hFFF))
                    \cup imm20 \cup imm19_12 \cup imm11 \cup imm10_1))

apply_r_riscv_rvc_branch_rela(m, location, address) ==
    LET offset == WrappingSub(address, location, 64)
        imm8 == AsU16(Shl(BitAnd(offset, BV(\h100)), 12 - 8, 64))
        imm7_6 == AsU16(Shr(BitAnd(offset, BV(\hc0)), 6 - 5, 64))
        imm5 == AsU16(Shr(BitAnd(offset, BV(\h20)), 5 - 2, 64))
        imm4_3 == AsU16(Shl(BitAnd(offset, BV(\h18)), 12 - 5, 64))
        imm2_1 == AsU16(Shl(BitAnd(offset, BV(\h6)), 12 - 10, 64))
        original_inst == PtrRead(m, location, 2)
    IN  IF OverflowChecks /\ SSubOverflows(address, location, 64)
        THEN Panicked(m)
        ELSE Ok(PtrWrite(m, location, 2,
                BitAnd(original_inst, BV(\he383))
                    \cup imm8 \cup imm7_6 \cup imm5 \cup imm4_3 \cup imm2_1))

apply_r_riscv_rvc_jump_rela(m, location, address) ==
    LET offset == WrappingSub(address, location, 64)
        imm11 == AsU16(Shl(BitAnd(offset, BV(\h800)), 12 - 11, 64))
        imm10 == AsU16(Shr(BitAnd(offset, BV(\h400)), 10 - 8, 64))
        imm9_8 == AsU16(Shl(BitAnd(offset, BV(\h300)), 12 - 11, 64))
        imm7 == AsU16(Shr(BitAnd(offset, BV(\h80)), 7 - 6, 64))
        imm6 == AsU16(Shl(BitAnd(offset, BV(\h40)), 12 - 11, 64))
        imm5 == AsU16(Shr(BitAnd(offset, BV(\h20)), 5 - 2, 64))
        imm4 == AsU16(Shl(BitAnd(offset, BV(\h10)), 12 - 5, 64))
        imm3_1 == AsU16(Shl(BitAnd(offset, BV(\he)), 12 - 10, 64))
        original_inst == PtrRead(m, location, 2)
    IN  IF OverflowChecks /\ SSubOverflows(address, location, 64)
        THEN Panicked(m)
        ELSE Ok(PtrWrite(m, location, 2,
                BitAnd(original_inst, BV(\he003))
                    \cup imm11 \cup imm10 \cup imm9_8 \cup imm7
                    \cup imm6 \cup imm5 \cup imm4 \cup imm3_1))

\* hi20 without the 0x800 rounding; C10 tells it apart
apply_r_riscv_pcrel_hi20_rela_unrounded(m, location, address) ==
    LET offset == WrappingSub(address, location, 64)
        hi20 == BitAnd(offset, BV32(\hffff, \hf000))
        original_inst == PtrRead(m, location, 4)
    IN  IF OverflowChecks /\ SSubOverflows(address, location, 64)
        THEN Panicked(m)
        ELSE IF ~riscv_insn_valid_32bit_offset(offset)
        THEN RelocationFailed(m)
        ELSE Ok(PtrWrite(m, location, 4,
                BitAnd(original_inst, BV(\hfff)) \cup AsU32(hi20)))

apply_r_riscv_pcrel_hi20_rela(m, location, address) ==
    LET offset == WrappingSub(address, location, 64)
        hi20 == BitAnd(WrappingAdd(offset, BV(\h800), 64), BV32(\hffff, \hf000))
        original_inst == PtrRead(m, location, 4)
    IN  IF OverflowChecks /\ SSubOverflows(address, location, 64)
        THEN Panicked(m)
        ELSE IF ~riscv_insn_valid_32bit_offset(offset)
        THEN RelocationFailed(m)
        ELSE IF OverflowChecks /\ SAddOverflows(offset, BV(\h800), 64)
        THEN Panicked(m)
        ELSE Ok(PtrWrite(m, location, 4,
                BitAnd(original_inst, BV(\hfff)) \cup AsU32(hi20)))

\* a mask that also clears rs1 (bits 15..19); C7 tells it apart
apply_r_riscv_pcrel_lo12_i_rela_mask(m, location, address) ==
    LET original_inst == PtrRead(m, location, 4)
    IN  Ok(PtrWrite(m, location, 4,
            BitAnd(original_inst, BV(\h7fff))
                \cup Shl(BitAnd(AsU32(address), BV(\hfff)), 20, 32)))

apply_r_riscv_pcrel_lo12_i_rela(m, location, address) ==
    LET original_inst == PtrRead(m, location, 4)
    IN  Ok(PtrWrite(m, location, 4,
            BitAnd(original_inst, BV(\hfffff))
                \cup Shl(BitAnd(AsU32(address), BV(\hfff)), 20, 32)))

apply_r_riscv_pcrel_lo12_s_rela(m, location, address) ==
    LET imm11_5 == Shl(BitAnd(AsU32(address), BV(\hfe0)), 31 - 11, 32)
        imm4_0 == Shl(BitAnd(AsU32(address), BV(\h1f)), 11 - 4, 32)
        original_inst == PtrRead(m, location, 4)
    IN  Ok(PtrWrite(m, location, 4,
            BitAnd(original_inst, BV(\h1fff07f)) \cup imm11_5 \cup imm4_0))

apply_r_riscv_hi20_rela(m, location, address) ==
    LET hi20 == BitAnd(WrappingAdd(address, BV(\h800), 64), BV32(\hffff, \hf000))
        original_inst == PtrRead(m, location, 4)
    IN  IF OverflowChecks /\ UAddOverflows(address, BV(\h800), 64)
        THEN Panicked(m)
        ELSE Ok(PtrWrite(m, location, 4,
                BitAnd(original_inst, BV(\hfff)) \cup AsU32(hi20)))

apply_r_riscv_lo12_i_rela(m, location, address) ==
    LET address32 == AsU32(address)
        hi20 == BitAnd(WrappingAdd(address32, BV(\h800), 32), BV32(\hffff, \hf000))
        lo12 == WrappingSub(address32, hi20, 32)
        original_inst == PtrRead(m, location, 4)
    IN  IF OverflowChecks /\ (\/ SAddOverflows(address32, BV(\h800), 32)
                              \/ SSubOverflows(address32, hi20, 32))
        THEN Panicked(m)
        ELSE Ok(PtrWrite(m, location, 4,
                BitAnd(original_inst, BV(\hfffff))
                    \cup Shl(BitAnd(lo12, BV(\hfff)), 20, 32)))

apply_r_riscv_lo12_s_rela(m, location, address) ==
    LET address32 == AsU32(address)
        hi20 == BitAnd(WrappingAdd(address32, BV(\h800), 32), BV32(\hffff, \hf000))
        lo12 == WrappingSub(address32, hi20, 32)
        imm11_5 == Shl(BitAnd(lo12, BV(\hfe0)), 31 - 11, 32)
        imm4_0 == Shl(BitAnd(lo12, BV(\h1f)), 11 - 4, 32)
        original_inst == PtrRead(m, location, 4)
    IN  IF OverflowChecks /\ (\/ SAddOverflows(address32, BV(\h800), 32)
                              \/ SSubOverflows(address32, hi20, 32))
        THEN Panicked(m)
        ELSE Ok(PtrWrite(m, location, 4,
                BitAnd(original_inst, BV(\h1fff07f)) \cup imm11_5 \cup imm4_0))

\* unimplemented!("R_RISCV_GOT_HI20 relocation not implemented yet")
apply_r_riscv_got_hi20_rela(m, location, address) == Panicked(m)

apply_r_riscv_call_plt_rela(m, location, address) ==
    LET offset == WrappingSub(address, location, 64)
        hi20 == BitAnd(WrappingAdd(offset, BV(\h800), 64), BV32(\hffff, \hf000))
        lo12 == BitAnd(WrappingSub(offset, hi20, 64), BV(\hfff))
        original_auipc == PtrRead(m, location, 4)
        m1 == PtrWrite(m, location, 4, BitAnd(original_auipc, BV(\hfff)) \cup AsU32(hi20))
        original_jalr_ptr == PtrAdd(location, 4)
        original_jalr == PtrRead(m1, original_jalr_ptr, 4)
    IN  IF OverflowChecks /\ SSubOverflows(address, location, 64)
        THEN Panicked(m)
        ELSE IF ~riscv_insn_valid_32bit_offset(offset)
        THEN RelocationFailed(m)
        ELSE IF OverflowChecks /\ (\/ SAddOverflows(offset, BV(\h800), 64)
                                   \/ SSubOverflows(offset, hi20, 64))
        THEN Panicked(m)
        ELSE Ok(PtrWrite(m1, original_jalr_ptr, 4,
                BitAnd(original_jalr, BV(\hfffff)) \cup Shl(AsU32(lo12), 20, 32)))

apply_r_riscv_call_rela(m, location, address) ==
    LET offset == WrappingSub(address, location, 64)
        hi20 == BitAnd(WrappingAdd(offset, BV(\h800), 64), BV32(\hffff, \hf000))
        lo12 == BitAnd(WrappingSub(offset, hi20, 64), BV(\hfff))
        original_auipc == PtrRead(m, location, 4)
        m1 == PtrWrite(m, location, 4, BitAnd(original_auipc, BV(\hfff)) \cup AsU32(hi20))
        original_jalr_ptr == PtrAdd(location, 4)
        original_jalr == PtrRead(m1, original_jalr_ptr, 4)
    IN  IF OverflowChecks /\ SSubOverflows(address, location, 64)
        THEN Panicked(m)
        ELSE IF ~riscv_insn_valid_32bit_offset(offset)
        THEN RelocationFailed(m)
        ELSE IF OverflowChecks /\ (\/ SAddOverflows(offset, BV(\h800), 64)
                                   \/ SSubOverflows(offset, hi20, 64))
        THEN Panicked(m)
        ELSE Ok(PtrWrite(m1, original_jalr_ptr, 4,
                BitAnd(original_jalr, BV(\hfffff)) \cup Shl(AsU32(lo12), 20, 32)))

apply_r_riscv_relax_rela(m, location, address) == Ok(m)

apply_r_riscv_align_rela(m, location, address) == RelocationFailed(m)

apply_r_riscv_add16_rela(m, location, address) ==
    Ok(PtrWrite(m, location, 2, AsU16(address)))

apply_r_riscv_add32_rela(m, location, address) ==
    Ok(PtrWrite(m, location, 4, AsU32(address)))

apply_r_riscv_add64_rela(m, location, address) ==
    Ok(PtrWrite(m, location, 8, address))

apply_r_riscv_sub16_rela(m, location, address) ==
    LET value == PtrRead(m, location, 2)
    IN  IF OverflowChecks /\ USubOverflows(value, AsU16(address), 16)
        THEN Panicked(m)
        ELSE Ok(PtrWrite(m, location, 2, WrappingSub(value, AsU16(address), 16)))

apply_r_riscv_sub32_rela(m, location, address) ==
    LET value == PtrRead(m, location, 4)
    IN  IF OverflowChecks /\ USubOverflows(value, AsU32(address), 32)
        THEN Panicked(m)
        ELSE Ok(PtrWrite(m, location, 4, WrappingSub(value, AsU32(address), 32)))

apply_r_riscv_sub64_rela(m, location, address) ==
    LET value == PtrRead(m, location, 8)
    IN  IF OverflowChecks /\ USubOverflows(value, address, 64)
        THEN Panicked(m)
        ELSE Ok(PtrWrite(m, location, 8, WrappingSub(value, address, 64)))

\* Riscv64RelocationType::apply_relocation: the match over self; every variant
\* without an arm falls to `_ => unimplemented!(..)`
apply_relocation(self, m, location, address) ==
    CASE self = R_RISCV_32 -> apply_r_riscv_32_rela(m, location, address)
      [] self = R_RISCV_64 -> apply_r_riscv_64_rela(m, location, address)
      [] self = R_RISCV_BRANCH -> apply_r_riscv_branch_rela(m, location, address)
      [] self = R_RISCV_JAL -> apply_r_riscv_jal_rela(m, location, address)
      [] self = R_RISCV_RVC_BRANCH -> apply_r_riscv_rvc_branch_rela(m, location, address)
      [] self = R_RISCV_RVC_JUMP -> apply_r_riscv_rvc_jump_rela(m, location, address)
      [] self = R_RISCV_PCREL_HI20 -> apply_r_riscv_pcrel_hi20_rela(m, location, address)
      [] self = R_RISCV_PCREL_LO12_I -> apply_r_riscv_pcrel_lo12_i_rela(m, location, address)
      [] self = R_RISCV_PCREL_LO12_S -> apply_r_riscv_pcrel_lo12_s_rela(m, location, address)
      [] self = R_RISCV_HI20 -> apply_r_riscv_hi20_rela(m, location, address)
      [] self = R_RISCV_LO12_I -> apply_r_riscv_lo12_i_rela(m, location, address)
      [] self = R_RISCV_LO12_S -> apply_r_riscv_lo12_s_rela(m, location, address)
      [] self = R_RISCV_GOT_HI20 -> apply_r_riscv_got_hi20_rela(m, location, address)
      [] self = R_RISCV_CALL_PLT -> apply_r_riscv_call_plt_rela(m, location, address)
      [] self = R_RISCV_CALL -> apply_r_riscv_call_rela(m, location, address)
      [] self = R_RISCV_RELAX -> apply_r_riscv_relax_rela(m, location, address)
      [] self = R_RISCV_ALIGN -> apply_r_riscv_align_rela(m, location, address)
      [] self = R_RISCV_ADD16 -> apply_r_riscv_add16_rela(m, location, address)
      [] self = R_RISCV_ADD32 -> apply_r_riscv_add32_rela(m, location, address)
      [] self = R_RISCV_ADD64 -> apply_r_riscv_add64_rela(m, location, address)
      [] self = R_RISCV_SUB16 -> apply_r_riscv_sub16_rela(m, location, address)
      [] self = R_RISCV_SUB32 -> apply_r_riscv_sub32_rela(m, location, address)
      [] self = R_RISCV_SUB64 -> apply_r_riscv_sub64_rela(m, location, address)
      [] OTHER -> Panicked(m)

----------------------------------------------------------------------------
(* arch/mod.rs: the two halves of r_info *)

\* (r_info & 0xffffffff) as u32
get_rela_type(r_info) == AsU32(BitAnd(r_info, BV32(\hffff, \hffff)))

\* (r_info >> 32) as usize
get_rela_sym_idx(r_info) == Lsr(r_info, 32)

\* Riscv64RelocationType::try_from(u32) (derive IntEnum): the variant with that
\* discriminant, or an error when there is none
Discriminants == {BV(d) : d \in Riscv64RelocationType}
\* a conversion that lets every u32 through; C2 tells it apart
try_from_unchecked(rel_type) ==
    [ok |-> TRUE, kind |-> ToNat(rel_type)]

try_from(rel_type) ==
    IF rel_type \in Discriminants
    THEN [ok |-> TRUE, kind |-> ToNat(rel_type)]
    ELSE [ok |-> FALSE, kind |-> -1]

\* load_info.syms[i] with i: usize; a Vec index out of bounds panics
InBounds(i, len) == ULt(i, BV(len))
At(seq, i) == seq[ToNat(i) + 1]

----------------------------------------------------------------------------
(* impl Riscv64ArchRelocate: apply_relocate_add *)

RECURSIVE FindHi20(_, _, _)
\* the inner loop over rela_list (lines 481-521) from entry j on, for a LO12
\* entry whose symbol is sym: "found" with the lo12 value, "missing" when the
\* loop ends without a match, or the error / panic that ends the function
FindHi20(relas, sym, j) ==
    IF j > Len(relas) THEN [kind |-> "missing", value |-> {}]
    ELSE
    LET inner_rela == relas[j]
        hi20_loc == WrappingAdd(sechdrs.sh_addr, inner_rela.r_offset, 64)
        hi20_type == try_from(get_rela_type(inner_rela.r_info))
        hi20_idx == get_rela_sym_idx(inner_rela.r_info)
        hi20_sym == At(syms, hi20_idx)
        hi20_sym_val == WrappingAdd(hi20_sym, inner_rela.r_addend, 64)
        offset == WrappingSub(hi20_sym_val, hi20_loc, 64)
        hi_20 == BitAnd(WrappingAdd(offset, BV(\h800), 64), BV32(\hffff, \hf000))
        lo_12 == WrappingSub(offset, hi_20, 64)
    IN  IF OverflowChecks /\ UAddOverflows(sechdrs.sh_addr, inner_rela.r_offset, 64)
        THEN [kind |-> "panic", value |-> {}]
        ELSE IF ~hi20_type.ok
        THEN [kind |-> "RelocationFailed", value |-> {}]
        ELSE IF hi20_loc = sym
                /\ hi20_type.kind \in {R_RISCV_PCREL_HI20, R_RISCV_GOT_HI20}
        THEN IF ~InBounds(hi20_idx, Len(syms))
             THEN [kind |-> "panic", value |-> {}]
             ELSE IF OverflowChecks
                     /\ (\/ SAddOverflows(hi20_sym, inner_rela.r_addend, 64)
                         \/ SSubOverflows(hi20_sym_val, hi20_loc, 64))
             THEN [kind |-> "panic", value |-> {}]
             ELSE IF hi20_type.kind = R_RISCV_GOT_HI20
             THEN [kind |-> "panic", value |-> {}]
             ELSE IF OverflowChecks
                     /\ (\/ SAddOverflows(offset, BV(\h800), 64)
                         \/ SSubOverflows(offset, hi_20, 64))
             THEN [kind |-> "panic", value |-> {}]
             ELSE [kind |-> "found", value |-> lo_12]
        ELSE FindHi20(relas, sym, j + 1)

\* an iteration that applies a PCREL_LO12 entry without a HI20 entry with the
\* symbol value plus addend; C15 tells it apart
Iteration_unpaired(m, rela) ==
    LET rel_type == get_rela_type(rela.r_info)
        sym_idx == get_rela_sym_idx(rela.r_info)
        location == WrappingAdd(sechdrs.sh_addr, rela.r_offset, 64)
        sym == At(syms, sym_idx)
        reloc_type == try_from(rel_type)
        target_addr == WrappingAdd(sym, rela.r_addend, 64)
        is_lo12 == reloc_type.kind \in {R_RISCV_PCREL_LO12_I, R_RISCV_PCREL_LO12_S}
        hi20 == FindHi20(rela_list, sym, 1)
        value == IF is_lo12 /\ hi20.kind = "found" THEN hi20.value ELSE target_addr
        made == [kind |-> reloc_type.kind, location |-> location, address |-> value]
        r == apply_relocation(reloc_type.kind, m, location, value)
        none == [kind |-> -1, location |-> {}, address |-> {}]
    IN  IF OverflowChecks /\ UAddOverflows(sechdrs.sh_addr, rela.r_offset, 64)
        THEN [res |-> "panic", mem |-> m, call |-> none]
        ELSE IF ~InBounds(sym_idx, Len(syms))
        THEN [res |-> "panic", mem |-> m, call |-> none]
        ELSE IF ~reloc_type.ok
        THEN [res |-> "RelocationFailed", mem |-> m, call |-> none]
        ELSE IF OverflowChecks /\ SAddOverflows(sym, rela.r_addend, 64)
        THEN [res |-> "panic", mem |-> m, call |-> none]
        ELSE IF is_lo12 /\ hi20.kind \in {"panic", "RelocationFailed"}
        THEN [res |-> hi20.kind, mem |-> m, call |-> none]
        ELSE [res |-> r.res, mem |-> r.mem, call |-> made]

\* one iteration of `for rela in rela_list` (lines 460-542): what it leaves in
\* memory, how it ends ("Ok": on to the next entry) and the apply_relocation
\* call it made, if it made one
Iteration(m, rela) ==
    LET rel_type == get_rela_type(rela.r_info)
        sym_idx == get_rela_sym_idx(rela.r_info)
        location == WrappingAdd(sechdrs.sh_addr, rela.r_offset, 64)
        sym == At(syms, sym_idx)
        reloc_type == try_from(rel_type)
        target_addr == WrappingAdd(sym, rela.r_addend, 64)
        is_lo12 == reloc_type.kind \in {R_RISCV_PCREL_LO12_I, R_RISCV_PCREL_LO12_S}
        hi20 == FindHi20(rela_list, sym, 1)
        value == IF is_lo12 THEN hi20.value ELSE target_addr
        made == [kind |-> reloc_type.kind, location |-> location, address |-> value]
        r == apply_relocation(reloc_type.kind, m, location, value)
        none == [kind |-> -1, location |-> {}, address |-> {}]
    IN  IF OverflowChecks /\ UAddOverflows(sechdrs.sh_addr, rela.r_offset, 64)
        THEN [res |-> "panic", mem |-> m, call |-> none]
        ELSE IF ~InBounds(sym_idx, Len(syms))
        THEN [res |-> "panic", mem |-> m, call |-> none]
        ELSE IF ~reloc_type.ok
        THEN [res |-> "RelocationFailed", mem |-> m, call |-> none]
        ELSE IF OverflowChecks /\ SAddOverflows(sym, rela.r_addend, 64)
        THEN [res |-> "panic", mem |-> m, call |-> none]
        ELSE IF is_lo12 /\ hi20.kind \in {"panic", "RelocationFailed"}
        THEN [res |-> hi20.kind, mem |-> m, call |-> none]
        ELSE IF is_lo12 /\ hi20.kind = "missing"
        THEN [res |-> "RelocationFailed", mem |-> m, call |-> none]
        ELSE [res |-> r.res, mem |-> r.mem, call |-> made]

\* lines 446-459: the section header, debug_assert!(sh_entsize == 24), the
\* entries read with from_raw_rela (24 bytes each, whatever sh_entsize says)
Enter ==
    /\ pc = "apply_relocate_add"
    /\ IF DebugAssertions /\ sechdrs.sh_entsize # 24
       THEN pc' = "done" /\ res' = "panic"
       ELSE pc' = "for" /\ res' = res
    /\ UNCHANGED <<build, sechdrs, syms, rela_list, mem, mem0, idx, applied, call>>

\* lines 460-542: the loop body for the entry at idx
Relocate ==
    /\ pc = "for"
    /\ idx <= Len(rela_list)
    /\ \E it \in {Iteration(mem, rela_list[idx])} :
           /\ mem' = it.mem
           /\ call' = IF it.call.kind = -1 THEN call ELSE it.call
           /\ IF it.res = "Ok"
              THEN /\ idx' = idx + 1
                   /\ applied' = Append(applied, idx)
                   /\ UNCHANGED <<pc, res>>
              ELSE /\ pc' = "done"
                   /\ res' = it.res
                   /\ UNCHANGED <<idx, applied>>
    /\ UNCHANGED <<build, sechdrs, syms, rela_list, mem0>>

\* line 543: Ok(()) after the last entry
Return ==
    /\ pc = "for"
    /\ idx > Len(rela_list)
    /\ pc' = "done"
    /\ res' = "Ok"
    /\ UNCHANGED <<build, sechdrs, syms, rela_list, mem, mem0, idx, applied, call>>

----------------------------------------------------------------------------
(* Inputs *)

\* bytes of module memory the model holds, from the patched section's sh_addr
MemSize == 16

\* -x on i64
Neg(x) == WrappingSub({}, x, 64)

\* sh_addr of the patched section: a low address and a kernel high-half one
\* (0xffffffc000200000)
ShAddrs == {BV(\h1000), BV64(\hffff, \hffc0, \h0020, \h0000)}

\* module memory filled with one 32-bit word repeated
Filled(word) == [i \in 0..(MemSize - 1) |-> ByteOf(word, i % 4)]

\* initial instruction words: all bits clear, all bits set, beq zero,zero,0
InitWords == {{}, 0..31, BV(\h63)}

\* r_offset of the patch location of a single call (aligned for the widest access)
LocOffsets == {8}

\* address - location of the calls: the ends of every kind's immediate range,
\* inside and outside, and values between
Forward == {
    BV(0), BV(2), BV(\h10), BV(\h1234),
    BV(\hfe), BV(\h100), BV(\h7fe), BV(\h800),
    BV(\hffe), BV(\h1000), BV(\hffffe), BV(\h100000),
    BV32(\h7fff, \he800), BV32(\h7fff, \hf7ff), BV32(\h7fff, \hf800),
    BV64(0, 7, \hffff, \hf000)}
Backward == {
    BV(2), BV(\h1234),
    BV(\h100), BV(\h102), BV(\h800), BV(\h802),
    BV(\h1000), BV(\h1002), BV(\h100000), BV(\h100002),
    BV32(\h8000, \h0800), BV32(\h8000, \h0801)}
Deltas == Forward \cup {Neg(d) : d \in Backward}

Builds == {"debug", "release"}

\* most entries a relocation section of the model holds
MaxRelas == 2

\* load_info.syms of the model: a symbol 16 bytes into the patched section, a
\* label at its first byte (where a HI20 entry can sit), and an external symbol
\* at 0x800000000 that no 32-bit offset reaches
Syms(sh_addr) == <<PtrAdd(sh_addr, 16), sh_addr, BV64(0, 8, 0, 0)>>

\* an Elf64_Rela: r_info = (symbol index << 32) | type
Rela(r_offset, type, sym_idx, r_addend) ==
    [r_offset |-> BV(r_offset),
     r_info |-> BitOr(Shl(BV(sym_idx), 32, 64), type),
     r_addend |-> r_addend]

\* the entries the sections of the model are made of; symbol index 3 is out of
\* bounds, 12 and 57 are no discriminants
Entries == {
    Rela(0, BV(R_RISCV_PCREL_HI20), 0, BV(0)),
    Rela(8, BV(R_RISCV_PCREL_LO12_I), 1, BV(0)),
    Rela(8, BV(R_RISCV_PCREL_LO12_S), 1, BV(4)),
    Rela(0, BV(R_RISCV_GOT_HI20), 0, BV(0)),
    Rela(8, BV(12), 0, BV(0)),
    Rela(8, BV(57), 3, BV(0)),
    Rela(8, BV(R_RISCV_BRANCH), 0, BV(0)),
    Rela(8, BV(R_RISCV_BRANCH), 3, BV(0)),
    Rela(0, BV(R_RISCV_PCREL_HI20), 2, BV(0)),
    Rela(0, BV(R_RISCV_PCREL_HI20), 3, BV(0)),
    Rela(8, BV(R_RISCV_ALIGN), 0, BV(0)),
    Rela(8, BV(R_RISCV_TLS_DTPMOD64), 0, BV(0)),
    Rela(8, BV(R_RISCV_CALL), 0, BV(\h1234)),
    Rela(8, BV(R_RISCV_64), 2, BV(0))}

RECURSIVE Sections(_)
\* the relocation sections of at most n entries
Sections(n) ==
    IF n = 0 THEN {<<>>}
    ELSE LET shorter == Sections(n - 1)
         IN  shorter \cup {Append(s, e) : s \in {x \in shorter : Len(x) = n - 1}, e \in Entries}

\* sh_entsize of the relocation section: sizeof(Elf64_Rela) and a wrong one
EntSizes == {24, 16}

\* the (location, address) pairs of the calls into the section at sh_addr
Targets(sh_addr) ==
    {[location |-> PtrAdd(sh_addr, off),
      address |-> WrappingAdd(PtrAdd(sh_addr, off), delta, 64)] :
        off \in LocOffsets, delta \in Deltas}

----------------------------------------------------------------------------
(* A single call of Riscv64RelocationType::apply_relocation *)

ApplyInit ==
    /\ build \in Builds
    /\ mem \in {Filled(word) : word \in InitWords}
    /\ \E sh_addr \in ShAddrs :
          /\ sechdrs = [sh_addr |-> sh_addr, sh_entsize |-> 24]
          /\ \E t \in Targets(sh_addr), kind \in Riscv64RelocationType :
                call = [kind |-> kind, location |-> t.location, address |-> t.address]
    /\ mem0 = mem
    /\ syms = <<>>
    /\ rela_list = <<>>
    /\ idx = 0
    /\ applied = <<>>
    /\ pc = "apply_relocation"
    /\ res = "none"

ApplyRelocation ==
    /\ pc = "apply_relocation"
    /\ \E r \in {apply_relocation(call.kind, mem, call.location, call.address)} :
           /\ mem' = r.mem
           /\ res' = r.res
    /\ pc' = "done"
    /\ UNCHANGED <<build, sechdrs, syms, rela_list, mem0, idx, applied, call>>

ApplyNext == ApplyRelocation

ApplySpec == ApplyInit /\ [][ApplyNext]_vars

----------------------------------------------------------------------------
(* A call of Riscv64ArchRelocate::apply_relocate_add on one relocation section *)

Init ==
    /\ build \in Builds
    /\ sechdrs \in {[sh_addr |-> BV(\h1000), sh_entsize |-> e] : e \in EntSizes}
    /\ syms = Syms(BV(\h1000))
    /\ rela_list \in Sections(MaxRelas)
    /\ mem = Filled(BV(\h63))
    /\ mem0 = mem
    /\ pc = "apply_relocate_add"
    /\ idx = 1
    /\ applied = <<>>
    /\ call = [kind |-> -1, location |-> {}, address |-> {}]
    /\ res = "none"

Next == Enter \/ Relocate \/ Return

Spec == Init /\ [][Next]_vars

----------------------------------------------------------------------------
(* apply_relocate_add on the sections that make a hi20 / lo12 pair: a        *)
(* PCREL_HI20 at the section's first word with its PCREL_LO12 at the third,  *)
(* or a CALL / CALL_PLT on the first two words; the symbol is Deltas away    *)

PairSections == {
    <<Rela(0, BV(R_RISCV_PCREL_HI20), 0, BV(0)), Rela(8, BV(R_RISCV_PCREL_LO12_I), 1, BV(0))>>,
    <<Rela(0, BV(R_RISCV_PCREL_HI20), 0, BV(0)), Rela(8, BV(R_RISCV_PCREL_LO12_S), 1, BV(0))>>,
    <<Rela(8, BV(R_RISCV_PCREL_LO12_I), 1, BV(0)), Rela(0, BV(R_RISCV_PCREL_HI20), 0, BV(0))>>,
    <<Rela(0, BV(R_RISCV_CALL), 0, BV(0))>>,
    <<Rela(0, BV(R_RISCV_CALL_PLT), 0, BV(0))>>}

PairInit ==
    /\ build \in Builds
    /\ \E sh_addr \in ShAddrs, delta \in Deltas :
          /\ sechdrs = [sh_addr |-> sh_addr, sh_entsize |-> 24]
          /\ syms = <<WrappingAdd(sh_addr, delta, 64), sh_addr>>
    /\ rela_list \in PairSections
    /\ mem \in {Filled(word) : word \in InitWords}
    /\ mem0 = mem
    /\ pc = "apply_relocate_add"
    /\ idx = 1
    /\ applied = <<>>
    /\ call = [kind |-> -1, location |-> {}, address |-> {}]
    /\ res = "none"

PairSpec == PairInit /\ [][Next]_vars

----------------------------------------------------------------------------
(* apply_relocate_add on the sections that apply an ADD_N and then the SUB_N *)
(* of the same width to one location, with the same symbol                   *)

AddSubSections == {
    <<Rela(8, BV(R_RISCV_ADD8), 0, BV(0)), Rela(8, BV(R_RISCV_SUB8), 0, BV(0))>>,
    <<Rela(8, BV(R_RISCV_ADD16), 0, BV(0)), Rela(8, BV(R_RISCV_SUB16), 0, BV(0))>>,
    <<Rela(8, BV(R_RISCV_ADD32), 0, BV(0)), Rela(8, BV(R_RISCV_SUB32), 0, BV(0))>>,
    <<Rela(8, BV(R_RISCV_ADD64), 0, BV(0)), Rela(8, BV(R_RISCV_SUB64), 0, BV(0))>>}

\* st_value of the symbol: small values, one per width that fills it, a
\* kernel address
SymValues == {
    BV(0), BV(1), BV(\h63), BV(\hff), BV(\hffff), BV32(\hffff, \hffff),
    BV64(0, 1, 0, 5), BV64(\hffff, \hffc0, \h0020, \h0010)}

AddSubInit ==
    /\ build \in Builds
    /\ sechdrs = [sh_addr |-> BV(\h1000), sh_entsize |-> 24]
    /\ syms \in {<<v>> : v \in SymValues}
    /\ rela_list \in AddSubSections
    /\ mem \in {Filled(word) : word \in InitWords}
    /\ mem0 = mem
    /\ pc = "apply_relocate_add"
    /\ idx = 1
    /\ applied = <<>>
    /\ call = [kind |-> -1, location |-> {}, address |-> {}]
    /\ res = "none"

AddSubSpec == AddSubInit /\ [][Next]_vars

----------------------------------------------------------------------------
(* The RISC-V instruction formats (ISA manual), for stating the properties:  *)
(* where each format keeps its immediate, and the offset it encodes          *)

\* bits lo..hi of w, moved so that bit lo lands on bit to
Field(w, lo, hi, to) == {i - lo + to : i \in {j \in w : lo <= j /\ j <= hi}}

\* whether the i64 x is in the range of an n-bit signed immediate
FitsSigned(x, n) == x = SignExtend(x \cap (0..(n - 1)), n, 64)

\* SB (branch): imm[12|10:5] in 31:25, imm[4:1|11] in 11:7
DecodeSB(w) ==
    SignExtend(Field(w, 31, 31, 12) \cup Field(w, 25, 30, 5)
                   \cup Field(w, 8, 11, 1) \cup Field(w, 7, 7, 11), 13, 64)
\* UJ (jal): imm[20|10:1|11|19:12] in 31:12
DecodeUJ(w) ==
    SignExtend(Field(w, 31, 31, 20) \cup Field(w, 21, 30, 1)
                   \cup Field(w, 20, 20, 11) \cup Field(w, 12, 19, 12), 21, 64)
\* CB (c.beqz, c.bnez): offset[8|4:3] in 12:10, offset[7:6|2:1|5] in 6:2
DecodeCB(w) ==
    SignExtend(Field(w, 12, 12, 8) \cup Field(w, 10, 11, 3) \cup Field(w, 5, 6, 6)
                   \cup Field(w, 3, 4, 1) \cup Field(w, 2, 2, 5), 9, 64)
\* CJ (c.j): offset[11|4|9:8|10|6|7|3:1|5] in 12:2
DecodeCJ(w) ==
    SignExtend(Field(w, 12, 12, 11) \cup Field(w, 11, 11, 4) \cup Field(w, 9, 10, 8)
                   \cup Field(w, 8, 8, 10) \cup Field(w, 7, 7, 6) \cup Field(w, 6, 6, 7)
                   \cup Field(w, 3, 5, 1) \cup Field(w, 2, 2, 5), 12, 64)
\* U (auipc, lui): imm[31:12] in 31:12, a signed 32-bit value
DecodeU(w) == SignExtend(Field(w, 12, 31, 12), 32, 64)
\* I (jalr, addi, loads): imm[11:0] in 31:20
DecodeI(w) == SignExtend(Field(w, 20, 31, 0), 12, 64)
\* S (stores): imm[11:5] in 31:25, imm[4:0] in 11:7
DecodeS(w) == SignExtend(Field(w, 25, 31, 5) \cup Field(w, 7, 11, 0), 12, 64)

\* the bits of the instruction that are no immediate bits (opcode, funct, registers)
KeptSB == (0..6) \cup (12..24)
KeptUJ == 0..11
KeptCB == (0..1) \cup (7..9) \cup (13..15)
KeptCJ == (0..1) \cup (13..15)
KeptU == 0..11
KeptI == 0..19
KeptS == (0..6) \cup (12..24)

\* the interval [-2^31 - 2^11, 2^31 - 2^11) of the auipc-paired kinds
InPcrelRange(x) ==
    /\ SLe(BV64(\hffff, \hffff, \h7fff, \hf800), x, 64)
    /\ SLt(x, BV32(\h7fff, \hf800), 64)

----------------------------------------------------------------------------
(* Properties of a single apply_relocation call (ApplySpec) *)

\* V - L of the call, the patch location in memory, and the instruction
\* words there before and after
Offset == WrappingSub(call.address, call.location, 64)
Loc == MemIndex(call.location)
Before(k, n) == ReadAt(mem0, Loc + k, n)
After(k, n) == ReadAt(mem, Loc + k, n)
Returned == pc = "done"

Unimplemented == {
    R_RISCV_GOT_HI20, R_RISCV_TLS_DTPMOD32, R_RISCV_TLS_DTPMOD64,
    R_RISCV_TLS_DTPREL32, R_RISCV_TLS_DTPREL64, R_RISCV_TLS_TPREL32,
    R_RISCV_TLS_TPREL64, R_RISCV_TLS_GOT_HI20, R_RISCV_TLS_GD_HI20,
    R_RISCV_COPY, R_RISCV_JUMP_SLOT, R_RISCV_ALIGN}

\* C3: a known but unimplemented kind (GOT_HI20, the TLS kinds, COPY,
\* JUMP_SLOT, ALIGN) makes apply_relocation return Err(RelocationFailed), not
\* panic, and leaves memory as it was.
C3_UnimplementedIsError ==
    (Returned /\ call.kind \in Unimplemented)
        => (res = "RelocationFailed" /\ mem = mem0)

\* the signed width of the immediate of the four branch / jump kinds
ImmBits(kind) ==
    CASE kind = R_RISCV_BRANCH -> 13
      [] kind = R_RISCV_JAL -> 21
      [] kind = R_RISCV_RVC_BRANCH -> 9
      [] kind = R_RISCV_RVC_JUMP -> 12
BranchKinds == {R_RISCV_BRANCH, R_RISCV_JAL, R_RISCV_RVC_BRANCH, R_RISCV_RVC_JUMP}

\* C6: for BRANCH, JAL, RVC_BRANCH and RVC_JUMP an offset V - L outside the
\* signed range of the immediate makes apply_relocation fail with
\* RelocationFailed and write nothing.
C6_OutOfRangeFails ==
    (Returned /\ call.kind \in BranchKinds /\ ~FitsSigned(Offset, ImmBits(call.kind)))
        => (res = "RelocationFailed" /\ mem = mem0)

\* the non-immediate bits an applied kind must keep: the words (byte offset
\* from the location, size, kept bits) it patches
Patched(kind) ==
    CASE kind = R_RISCV_BRANCH -> {<<0, 4, KeptSB>>}
      [] kind = R_RISCV_JAL -> {<<0, 4, KeptUJ>>}
      [] kind = R_RISCV_RVC_BRANCH -> {<<0, 2, KeptCB>>}
      [] kind = R_RISCV_RVC_JUMP -> {<<0, 2, KeptCJ>>}
      [] kind \in {R_RISCV_PCREL_HI20, R_RISCV_HI20} -> {<<0, 4, KeptU>>}
      [] kind \in {R_RISCV_PCREL_LO12_I, R_RISCV_LO12_I} -> {<<0, 4, KeptI>>}
      [] kind \in {R_RISCV_PCREL_LO12_S, R_RISCV_LO12_S} -> {<<0, 4, KeptS>>}
      [] kind \in {R_RISCV_CALL, R_RISCV_CALL_PLT} -> {<<0, 4, KeptU>>, <<4, 4, KeptI>>}
      [] OTHER -> {}

\* C7: every kind that patches an instruction keeps, when it succeeds, every
\* bit of the word(s) outside the immediate field(s) of the format (opcode,
\* funct and register bits), whatever the word and the value.
C7_NonImmediateBitsKept ==
    (Returned /\ res = "Ok")
        => \A p \in Patched(call.kind) :
               After(p[1], p[2]) \cap p[3] = Before(p[1], p[2]) \cap p[3]

\* C7's case: a successful BRANCH with offset 0 cleared exactly the immediate
\* bits of a word of all 1 bits.
C7_Witness ==
    /\ Returned /\ res = "Ok"
    /\ call.kind = R_RISCV_BRANCH
    /\ Before(0, 4) = 0..31
    /\ After(0, 4) = KeptSB

\* the offset the patched instruction of a branch / jump kind encodes
Decoded(kind) ==
    CASE kind = R_RISCV_BRANCH -> DecodeSB(After(0, 4))
      [] kind = R_RISCV_JAL -> DecodeUJ(After(0, 4))
      [] kind = R_RISCV_RVC_BRANCH -> DecodeCB(After(0, 2))
      [] kind = R_RISCV_RVC_JUMP -> DecodeCJ(After(0, 2))

\* C8: for BRANCH, JAL, RVC_BRANCH and RVC_JUMP and an even offset V - L in
\* the range of the immediate, the written instruction decodes (SB / UJ / CB /
\* CJ) to exactly V - L; a BRANCH 16 bytes forward turns 0x00000063 into
\* 0x00000863.
C8_DecodesToOffset ==
    (Returned /\ call.kind \in BranchKinds)
        => /\ (0 \notin Offset /\ FitsSigned(Offset, ImmBits(call.kind)))
                => (res = "Ok" /\ Decoded(call.kind) = Offset)
           /\ (call.kind = R_RISCV_BRANCH /\ Offset = BV(\h10) /\ Before(0, 4) = BV(\h63))
                => After(0, 4) = BV(\h863)

\* C8's case: the BRANCH of the example was applied.
C8_Witness ==
    /\ Returned /\ res = "Ok"
    /\ call.kind = R_RISCV_BRANCH
    /\ Offset = BV(\h10)
    /\ Before(0, 4) = BV(\h63)
    /\ After(0, 4) = BV(\h863)

AuipcKinds == {R_RISCV_PCREL_HI20, R_RISCV_CALL, R_RISCV_CALL_PLT}
CallKinds == {R_RISCV_CALL, R_RISCV_CALL_PLT}

\* (V - L + 0x800) & 0xFFFFF000 as the signed 32-bit value auipc adds
Hi20Of(x) ==
    SignExtend(AsU32(BitAnd(WrappingAdd(x, BV(\h800), 64), BV32(\hffff, \hf000))), 32, 64)

\* C9: PCREL_HI20, CALL and CALL_PLT succeed exactly when V - L is in
\* [-2^31 - 2^11, 2^31 - 2^11); outside they fail with RelocationFailed and
\* write nothing; inside the U-type immediate at L is (V - L + 0x800) &
\* 0xFFFFF000 and, for CALL / CALL_PLT, the I-type immediate at L + 4 is the
\* low 12 bits of (V - L) - hi20 (0x1234 forward: imm20 = 1, imm12 = 0x234).
C9_AuipcRange ==
    (Returned /\ call.kind \in AuipcKinds)
        => /\ (res = "Ok") = InPcrelRange(Offset)
           /\ ~InPcrelRange(Offset) => (res = "RelocationFailed" /\ mem = mem0)
           /\ InPcrelRange(Offset) =>
                /\ DecodeU(After(0, 4)) = Hi20Of(Offset)
                /\ call.kind \in CallKinds =>
                      Field(After(4, 4), 20, 31, 0)
                          = WrappingSub(Offset, Hi20Of(Offset), 64) \cap (0..11)
           /\ (call.kind = R_RISCV_CALL /\ Offset = BV(\h1234)) =>
                /\ Field(After(0, 4), 12, 31, 0) = BV(1)
                /\ Field(After(4, 4), 20, 31, 0) = BV(\h234)

\* C9's case: the first offset past the interval, 2^31 - 2^11, was refused.
C9_Witness ==
    /\ Returned
    /\ call.kind = R_RISCV_PCREL_HI20
    /\ Offset = BV32(\h7fff, \hf800)
    /\ res = "RelocationFailed"

\* C11: R_RISCV_RELAX and R_RISCV_NONE succeed and leave memory byte-identical,
\* for every location, value and memory content.
C11_RelaxNoneNoOp ==
    (Returned /\ call.kind \in {R_RISCV_RELAX, R_RISCV_NONE})
        => (res = "Ok" /\ mem = mem0)

\* the width in bits of the word an ADD / SUB kind works on
AddKinds == {R_RISCV_ADD8, R_RISCV_ADD16, R_RISCV_ADD32, R_RISCV_ADD64}
SubKinds == {R_RISCV_SUB8, R_RISCV_SUB16, R_RISCV_SUB32, R_RISCV_SUB64}
WidthOf(kind) ==
    CASE kind \in {R_RISCV_ADD8, R_RISCV_SUB8} -> 8
      [] kind \in {R_RISCV_ADD16, R_RISCV_SUB16} -> 16
      [] kind \in {R_RISCV_ADD32, R_RISCV_SUB32} -> 32
      [] kind \in {R_RISCV_ADD64, R_RISCV_SUB64} -> 64
\* the low N bits of the value V of the call
LowV(n) == call.address \cap (0..(n - 1))

\* C13: an ADD8 / ADD16 / ADD32 / ADD64 succeeds and the N-bit word at the
\* location becomes its old content plus V modulo 2^N.
C13_AddAccumulates ==
    (Returned /\ call.kind \in AddKinds)
        => \E n \in {WidthOf(call.kind)} :
              /\ res = "Ok"
              /\ After(0, n \div 8) = WrappingAdd(Before(0, n \div 8), LowV(n), n)

\* C16: a SUB8 / SUB16 / SUB32 / SUB64 succeeds, whatever W and V, and the
\* N-bit word at the location becomes (W - V) modulo 2^N.
C16_SubWraps ==
    (Returned /\ call.kind \in SubKinds)
        => \E n \in {WidthOf(call.kind)} :
              /\ res = "Ok"
              /\ After(0, n \div 8) = WrappingSub(Before(0, n \div 8), LowV(n), n)

----------------------------------------------------------------------------
(* Properties of apply_relocate_add (Spec) *)

\* the entry the loop is at, its kind and its symbol index
AtEntry == pc = "for" /\ idx <= Len(rela_list)
Unknown(rela) == get_rela_type(rela.r_info) \notin Discriminants
SymInBounds(rela) == InBounds(get_rela_sym_idx(rela.r_info), Len(syms))
KindOf(rela) == try_from(get_rela_type(rela.r_info)).kind

\* the function returned from inside the loop, at the entry idx
Stopped ==
    /\ pc = "done"
    /\ idx <= Len(rela_list)
    /\ ~(DebugAssertions /\ sechdrs.sh_entsize # 24)

\* C1: the entries are processed in order up to the first that fails; the
\* entries before it are applied, the failing entry's error (RelocationFailed)
\* is what the caller gets, and Ok is returned only when every entry was
\* applied.  Stated for the sections whose sh_entsize is 24.
C1_StopsAtFirstFailure ==
    (pc = "done" /\ sechdrs.sh_entsize = 24)
        => /\ applied = [i \in 1..Len(applied) |-> i]
           /\ IF Len(applied) = Len(rela_list)
              THEN res = "Ok"
              ELSE res = "RelocationFailed"

\* C2: when the loop is at an entry whose type is no discriminant of
\* Riscv64RelocationType and whose symbol index is in bounds, its next step
\* returns RelocationFailed at this entry: the entry is not passed over and
\* memory is not written.
C2_UnknownKindFails ==
    [][(AtEntry /\ Unknown(rela_list[idx]) /\ SymInBounds(rela_list[idx]))
          => /\ pc' = "done"
             /\ res' = "RelocationFailed"
             /\ idx' = idx
             /\ applied' = applied
             /\ mem' = mem]_vars

\* C2's case: after a first entry was applied, the function returned
\* RelocationFailed at a second entry of type 12 with symbol index 0.
C2_Witness ==
    /\ Stopped
    /\ idx = 2
    /\ applied = <<1>>
    /\ mem # mem0
    /\ get_rela_type(rela_list[2].r_info) = BV(12)
    /\ SymInBounds(rela_list[2])
    /\ res = "RelocationFailed"

\* C4: with sh_entsize # 24 the function fails with RelocationFailed before
\* it reads or applies an entry, in the debug and in the release build.
C4_EntsizeRejected ==
    sechdrs.sh_entsize # 24
        => /\ pc # "for"
           /\ applied = <<>>
           /\ mem = mem0
           /\ pc = "done" => res = "RelocationFailed"

\* the first entry of the section a PCREL_LO12 entry is paired with: a
\* PCREL_HI20 / GOT_HI20 entry located at the LO12 entry's symbol value
PairsWith(lo, j) ==
    /\ KindOf(rela_list[j]) \in {R_RISCV_PCREL_HI20, R_RISCV_GOT_HI20}
    /\ WrappingAdd(sechdrs.sh_addr, rela_list[j].r_offset, 64)
           = At(syms, get_rela_sym_idx(lo.r_info))
PairedOutOfBounds(lo) ==
    /\ SymInBounds(lo)
    /\ KindOf(lo) \in {R_RISCV_PCREL_LO12_I, R_RISCV_PCREL_LO12_S}
    /\ \E j \in 1..Len(rela_list) :
          /\ PairsWith(lo, j)
          /\ \A k \in 1..(j - 1) : ~Unknown(rela_list[k]) /\ ~PairsWith(lo, k)
          /\ ~SymInBounds(rela_list[j])

\* C5: when the function stops at an entry whose symbol index is out of
\* bounds, or at a PCREL_LO12 entry paired with a HI20 entry whose symbol
\* index is out of bounds, it has returned RelocationFailed.
C5_SymbolIndexChecked ==
    (Stopped /\ (~SymInBounds(rela_list[idx]) \/ PairedOutOfBounds(rela_list[idx])))
        => res = "RelocationFailed"

\* the entry a PCREL_LO12 entry is paired with: the first of the section, in
\* section order, that PairsWith it
FirstPair(lo) ==
    {j \in 1..Len(rela_list) :
        /\ PairsWith(lo, j)
        /\ \A k \in 1..(j - 1) : ~Unknown(rela_list[k]) /\ ~PairsWith(lo, k)}
Lo12Kinds == {R_RISCV_PCREL_LO12_I, R_RISCV_PCREL_LO12_S}

\* the low 12 bits of offset - ((offset + 0x800) & 0xFFFFF000) for the HI20
\* entry j, offset = (its symbol value + its addend) - its patch location
PairedLo12(j) ==
    LET hi == rela_list[j]
        offset == WrappingSub(
                      WrappingAdd(At(syms, get_rela_sym_idx(hi.r_info)), hi.r_addend, 64),
                      WrappingAdd(sechdrs.sh_addr, hi.r_offset, 64), 64)
    IN  WrappingSub(offset,
                    BitAnd(WrappingAdd(offset, BV(\h800), 64), BV32(\hffff, \hf000)),
                    64) \cap (0..11)

\* the 12-bit immediate of the I-type / S-type word at the LO12 entry's
\* location in memory m
Lo12Imm(m, lo) ==
    LET w == ReadAt(m, MemIndex(WrappingAdd(sechdrs.sh_addr, lo.r_offset, 64)), 4)
    IN  IF KindOf(lo) = R_RISCV_PCREL_LO12_I
        THEN Field(w, 20, 31, 0)
        ELSE Field(w, 25, 31, 5) \cup Field(w, 7, 11, 0)

\* C14: when the loop is at a PCREL_LO12_I / PCREL_LO12_S entry (symbol index
\* in bounds) and the first entry of the section that sits at the entry's
\* symbol value with kind PCREL_HI20 or GOT_HI20 is a PCREL_HI20 (symbol index
\* in bounds), the step writes the low 12 bits of that HI20 entry's offset
\* minus its hi20 as the immediate, whatever the LO12 entry's addend, and goes
\* on; when there is no such entry or it is a GOT_HI20, the step returns
\* RelocationFailed and writes nothing.
C14_Lo12Pairing ==
    [][(/\ AtEntry
        /\ SymInBounds(rela_list[idx])
        /\ KindOf(rela_list[idx]) \in Lo12Kinds
        /\ \A j \in FirstPair(rela_list[idx]) : SymInBounds(rela_list[j]))
          => IF \E j \in FirstPair(rela_list[idx]) :
                    KindOf(rela_list[j]) = R_RISCV_PCREL_HI20
             THEN /\ pc' = "for"
                  /\ idx' = idx + 1
                  /\ \A j \in FirstPair(rela_list[idx]) :
                        Lo12Imm(mem', rela_list[idx]) = PairedLo12(j)
             ELSE /\ pc' = "done"
                  /\ res' = "RelocationFailed"
                  /\ mem' = mem]_vars

\* the PCREL_LO12 entries that were applied
AppliedLo12 ==
    {applied[k] : k \in {n \in 1..Len(applied) : KindOf(rela_list[applied[n]]) \in Lo12Kinds}}

----------------------------------------------------------------------------
(* Properties of the hi20 / lo12 pairs (PairSpec) *)

\* the offset of the pair, and the two immediates found in memory
PairOffset == WrappingSub(syms[1], sechdrs.sh_addr, 64)
Hi20Written == DecodeU(ReadAt(mem, 0, 4))
Lo12Written ==
    IF Len(rela_list) = 1 THEN DecodeI(ReadAt(mem, 4, 4))
    ELSE IF \E j \in 1..2 : KindOf(rela_list[j]) = R_RISCV_PCREL_LO12_S
    THEN DecodeS(ReadAt(mem, 8, 4))
    ELSE DecodeI(ReadAt(mem, 8, 4))

\* C10: for every offset in [-2^31 - 2^11, 2^31 - 2^11) the pair is written,
\* and the U-type immediate written (a signed 32-bit value) plus the paired
\* I / S-type immediate written (sign-extended from bit 11) is the offset.
C10_Hi20Lo12RoundTrip ==
    pc = "done"
        => /\ InPcrelRange(PairOffset) => res = "Ok"
           /\ res = "Ok" => WrappingAdd(Hi20Written, Lo12Written, 64) = PairOffset

\* C10's case: offset 0x800 is split into hi20 = 0x1000 and lo12 = -0x800 by
\* a PCREL_HI20 and its PCREL_LO12.
C10_Witness ==
    /\ pc = "done" /\ res = "Ok"
    /\ Len(rela_list) = 2
    /\ PairOffset = BV(\h800)
    /\ Hi20Written = BV(\h1000)
    /\ Lo12Written = Neg(BV(\h800))

----------------------------------------------------------------------------
(* Properties of an ADD_N followed by its SUB_N (AddSubSpec) *)

\* C12: for N in {8, 16, 32, 64}, every initial word and every value V,
\* R_RISCV_ADD_N with V and then R_RISCV_SUB_N with V on the same location both
\* succeed and leave the low N bits of the word as they were.
C12_AddSubInverse ==
    pc = "done"
        => \E n \in {WidthOf(KindOf(rela_list[1]))} :
              /\ res = "Ok"
              /\ ReadAt(mem, 8, n \div 8) = ReadAt(mem0, 8, n \div 8)

============================================================================
